---- MODULE Spec2Model ----
(***************************************************************************)
(* Credit Intelligence Platform: the credit scoring service                *)
(* (app/services/credit_scoring.py), the sentiment aggregation it calls    *)
(* (app/services/sentiment_analysis.py), and the two endpoints that drive  *)
(* it: POST /credit-scores/calculate/{ticker} and the background retrain   *)
(* task of POST /ml-models/retrain.                                        *)
(* Beside it: create_company (app/api/v1/endpoints/companies.py), the      *)
(* ingestion service (app/services/data_ingestion.py) and the ingestion    *)
(* and evaluation endpoints.                                               *)
(*                                                                         *)
(* Numbers are scaled integers: ratios and probabilities in hundredths or  *)
(* in 1/ProbScale, the score in score points, sentiment as an exact        *)
(* fraction [num, den] of hundredths.                                      *)
(***************************************************************************)
EXTENDS Integers, Sequences, FiniteSets, TLC

\* ------------------------------------------------------------------ bounds
\* Training runs the model follows (each _train_model call takes a fresh id).
MaxRuns == 3
\* CreditScore rows the calculate endpoint may add.
MaxScores == 2
\* Largest |z| of a standard-normal draw the model samples (np.random.normal
\* is unbounded; the draws sampled are -MaxZ, -1, 0, 1, MaxZ).
MaxZ == 4
\* Probabilities are multiples of 1/ProbScale.
ProbScale == 2
\* Tickers of one batch_ingest_data call.
MaxBatch == 2
\* Background tasks the ingestion endpoint schedules.
MaxTasks == 2
\* Rows table companies may hold.
MaxCompanies == 4

\* ------------------------------------------------------- program constants
\* The two request kinds in flight: one calculate request, one retrain task.
Procs == {"calc", "retrain"}

FEATURE_NAMES ==
    <<"debt_to_equity", "current_ratio", "roe", "log_market_cap", "sentiment_score">>

MODEL_VERSION == "v1.0.0"

DefaultDebtToEquity == 50
DefaultCurrentRatio == 150
DefaultRoe == 15
DefaultMarketCap == 1000000000

\* np.log of a negative number is nan (a warning, no exception).
NaN == -1000000

\* get_company_sentiment(ticker, days = 7)
SentimentDays == 7

\* ------------------------------------------------------- pure functions
Max(a, b) == IF a >= b THEN a ELSE b
Abs(x) == IF x < 0 THEN -x ELSE x

RECURSIVE GCD(_, _)
GCD(a, b) == IF b = 0 THEN a ELSE GCD(b, a % b)

\* The float n/d (d > 0) as a fraction in lowest terms.
Frac(n, d) == LET g == GCD(Abs(n), d) IN [num |-> n \div g, den |-> d \div g]
Zero == [num |-> 0, den |-> 1]

\* Mutant: only None gives the default (`d if x is None else x`).
OrDefaultNoneOnly(x, d) == IF x = {} THEN d ELSE CHOOSE v \in x : TRUE

\* An optional column is {} (NULL / None) or {v}.  Python's `x or d`.
OrDefault(x, d) == IF x = {} \/ x = {0} THEN d ELSE CHOOSE v \in x : TRUE

\* np.log, in hundredths, on the market capitalisations the model draws;
\* nan for a negative argument.
NpLog(x) ==
    CASE x = 1000000000 -> 2072
      [] x = 2000000000 -> 2142
      [] OTHER -> NaN

\* Mutant: the defaults of current_ratio and roe change places.
ExtractFeaturesFromCompanySwapped(company) ==
    << OrDefault(company.debt_to_equity, DefaultDebtToEquity),
       OrDefault(company.current_ratio, DefaultRoe),
       OrDefault(company.roe, DefaultCurrentRatio),
       NpLog(OrDefault(company.market_cap, DefaultMarketCap)) >>

\* _extract_features_from_company
ExtractFeaturesFromCompany(company) ==
    << OrDefault(company.debt_to_equity, DefaultDebtToEquity),
       OrDefault(company.current_ratio, DefaultCurrentRatio),
       OrDefault(company.roe, DefaultRoe),
       NpLog(OrDefault(company.market_cap, DefaultMarketCap)) >>

\* Mutant: current_ratio and roe of the snapshot change places.
ExtractFeaturesFromFinancialDataSwapped(financial_data) ==
    << OrDefault(financial_data.debt_to_equity_ratio, DefaultDebtToEquity),
       OrDefault(financial_data.roe, DefaultRoe),
       OrDefault(financial_data.current_ratio, DefaultCurrentRatio),
       NpLog(OrDefault(financial_data.market_cap, DefaultMarketCap)) >>

\* _extract_features_from_financial_data
ExtractFeaturesFromFinancialData(financial_data) ==
    << OrDefault(financial_data.debt_to_equity_ratio, DefaultDebtToEquity),
       OrDefault(financial_data.current_ratio, DefaultCurrentRatio),
       OrDefault(financial_data.roe, DefaultRoe),
       NpLog(OrDefault(financial_data.market_cap, DefaultMarketCap)) >>

\* calculate_score, lines 144-148: r.financial_data is <<>> (no row) or <<row>>.
ExtractFeatures(r) ==
    IF r.financial_data = <<>>
    THEN ExtractFeaturesFromCompany(r.company)
    ELSE ExtractFeaturesFromFinancialData(r.financial_data[1])

\* A string is its case-folded, stripped text, its case pattern (caps = 0: all
\* lower case) and its surrounding whitespace (pad = 0: none).
Str(text, caps, pad) == [text |-> text, caps |-> caps, pad |-> pad]
Lower(s) == [s EXCEPT !.caps = 0]
Strip(s) == [s EXCEPT !.pad = 0]

high_credibility ==
    { Str(t, 0, 0) : t \in {"reuters", "bloomberg", "wall street journal",
                            "financial times", "cnbc", "marketwatch",
                            "yahoo finance", "seeking alpha"} }
medium_credibility ==
    { Str(t, 0, 0) : t \in {"cnn", "bbc", "forbes", "fortune", "business insider",
                            "techcrunch", "venturebeat"} }

\* Mutant: the source is looked up as it is written, without lower().
GetSourceCredibilityCaseSensitive(source) ==
    IF source \in high_credibility THEN 10
    ELSE IF source \in medium_credibility THEN 7
    ELSE 5

\* _get_source_credibility, in tenths
GetSourceCredibility(source) ==
    LET source_lower == Lower(source)
    IN IF source_lower \in high_credibility THEN 10
       ELSE IF source_lower \in medium_credibility THEN 7
       ELSE 5

\* recency_weight = max(0.1, 1.0 - days_old / days), in units of 1/(10 * days)
RecencyWeight(days_old, days) == Max(days, 10 * days - 10 * days_old)

\* dict.get(key, default): a key of the document is {} (not there) or {v}.
DictGet(x, d) == IF x = {} THEN d ELSE CHOOSE v \in x : TRUE

\* article.get('source', '')
ArticleSource(article) == DictGet(article.source, Str("", 0, 0))

\* Mutant: the weight is the recency weight alone.
ArticleWeightRecencyOnly(article, days) ==
    RecencyWeight(article.days_old, days) * 10

\* weight = recency_weight * source_weight, in units of 1/(100 * days)
ArticleWeight(article, days) ==
    RecencyWeight(article.days_old, days) * GetSourceCredibility(ArticleSource(article))

\* The three weights the loop of get_company_sentiment computes for each article.
ArticleWeights(news_articles, days) ==
    [i \in 1..Len(news_articles) |->
        [recency_weight |-> RecencyWeight(news_articles[i].days_old, days),
         source_weight |-> GetSourceCredibility(ArticleSource(news_articles[i])),
         weight |-> ArticleWeight(news_articles[i], days)]]

RECURSIVE TotalSentiment(_, _)
TotalSentiment(articles, days) ==
    IF articles = <<>> THEN 0
    ELSE articles[1].sentiment_score * ArticleWeight(articles[1], days)
         + TotalSentiment(Tail(articles), days)

RECURSIVE TotalWeight(_, _)
TotalWeight(articles, days) ==
    IF articles = <<>> THEN 0
    ELSE ArticleWeight(articles[1], days) + TotalWeight(Tail(articles), days)

\* Mutant: an empty result counts as the most negative sentiment.
WeightedSentimentEmptyNegative(news_articles, days) ==
    IF news_articles = <<>> THEN Frac(-100, 1)
    ELSE Frac(TotalSentiment(news_articles, days), TotalWeight(news_articles, days))

\* get_company_sentiment once the query returned news_articles
WeightedSentiment(news_articles, days) ==
    IF news_articles = <<>> THEN Zero
    ELSE IF TotalWeight(news_articles, days) > 0
         THEN Frac(TotalSentiment(news_articles, days), TotalWeight(news_articles, days))
         ELSE Zero

\* deduplication on the title as written
RECURSIVE DeduplicateNewsExactTitle(_, _)
DeduplicateNewsExactTitle(news_list, seen_titles) ==
    IF news_list = <<>> THEN <<>>
    ELSE IF news_list[1].title \in seen_titles
         THEN DeduplicateNewsExactTitle(Tail(news_list), seen_titles)
         ELSE <<news_list[1]>> \o
              DeduplicateNewsExactTitle(Tail(news_list),
                                        seen_titles \cup {news_list[1].title})

\* DataIngestionService._deduplicate_news: the first article of each
\* title.lower().strip() is kept.
RECURSIVE DeduplicateNews(_, _)
DeduplicateNews(news_list, seen_titles) ==
    IF news_list = <<>> THEN <<>>
    ELSE LET title_key == Strip(Lower(news_list[1].title))
         IN IF title_key \in seen_titles
            THEN DeduplicateNews(Tail(news_list), seen_titles)
            ELSE <<news_list[1]>> \o
                 DeduplicateNews(Tail(news_list), seen_titles \cup {title_key})

\* get_company_sentiment: n.status is "raised" when the query raised
GetCompanySentiment(n) ==
    IF n.status = "raised" THEN Zero ELSE WeightedSentiment(n.articles, SentimentDays)

\* np.argmax: the first index of the largest entry, counted from 0
ArgMax(v) ==
    (CHOOSE i \in 1..Len(v) :
        /\ \A j \in 1..Len(v) : v[j] <= v[i]
        /\ \A j \in 1..(i - 1) : v[j] < v[i]) - 1

\* Mutant: the tier is the last class, whatever the probabilities are.
PredictLast(probabilities) == Len(probabilities) - 1

\* model.predict(X_scaled)[0]: classes_[argmax(predict_proba)], classes_ = [0, 1, 2]
Predict(probabilities) == ArgMax(probabilities)

\* _calculate_numeric_score; z is the standard-normal draw behind np.random.normal
CalculateNumericScore(probabilities, level, z) ==
    IF level = 0 THEN 85 + 5 * z
    ELSE IF level = 1 THEN 60 + 10 * z
    ELSE 30 + 10 * z

\* Mutant: the confidence is the probability of the first class.
CalculateConfidenceFirst(probabilities) == probabilities[1]

\* _calculate_confidence, in units of 1/ProbScale
CalculateConfidence(probabilities) ==
    CHOOSE m \in {probabilities[i] : i \in 1..Len(probabilities)} :
        \A i \in 1..Len(probabilities) : probabilities[i] <= m

\* _get_risk_level_name
GetRiskLevelName(level) ==
    CASE level = 0 -> "low"
      [] level = 1 -> "medium"
      [] level = 2 -> "high"
      [] OTHER -> "medium"

\* Mutant: each name gets the value of the next feature.
GenerateFeatureContributionsShifted(feature_names, shap_values) ==
    [i \in 1..Len(feature_names) |->
        <<feature_names[i], shap_values[(i % Len(feature_names)) + 1]>>]

\* _generate_feature_contributions: the dict, in insertion order, as <<name, value>>
GenerateFeatureContributions(feature_names, shap_values) ==
    [i \in 1..Len(feature_names) |-> <<feature_names[i], shap_values[i]>>]

\* Mutant: among equal keys the last item comes first.
RECURSIVE SortedByAbsLastFirst(_)
SortedByAbsLastFirst(items) ==
    IF items = <<>> THEN <<>>
    ELSE LET k == CHOOSE i \in 1..Len(items) :
                     /\ \A j \in 1..Len(items) : Abs(items[j][2]) <= Abs(items[i][2])
                     /\ \A j \in (i + 1)..Len(items) : Abs(items[j][2]) < Abs(items[i][2])
             rest == [j \in 1..(Len(items) - 1) |-> IF j < k THEN items[j] ELSE items[j + 1]]
         IN <<items[k]>> \o SortedByAbsLastFirst(rest)

\* sorted(items, key = lambda x: abs(x[1]), reverse = True): stable
RECURSIVE SortedByAbs(_)
SortedByAbs(items) ==
    IF items = <<>> THEN <<>>
    ELSE LET k == CHOOSE i \in 1..Len(items) :
                     /\ \A j \in 1..Len(items) : Abs(items[j][2]) <= Abs(items[i][2])
                     /\ \A j \in 1..(i - 1) : Abs(items[j][2]) < Abs(items[i][2])
             rest == [j \in 1..(Len(items) - 1) |-> IF j < k THEN items[j] ELSE items[j + 1]]
         IN <<items[k]>> \o SortedByAbs(rest)

\* The sentence of _generate_explanation: its profile word and the factor it names.
ProfileWord(name) == IF name = "medium" THEN "moderate" ELSE name

\* Mutant: the sentence names the first feature declared.
GenerateExplanationFirstDeclared(feature_contributions, level) ==
    [profile |-> ProfileWord(GetRiskLevelName(level)),
     factor |-> feature_contributions[1][1]]

\* _generate_explanation
GenerateExplanation(feature_contributions, level) ==
    LET top_factor == SortedByAbs(feature_contributions)[1]
    IN [profile |-> ProfileWord(GetRiskLevelName(level)), factor |-> top_factor[1]]

\* Mutant: the slice is [:2].
GetKeyFactorsTopTwo(feature_contributions) ==
    LET sorted_contributions == SortedByAbs(feature_contributions)
    IN [i \in 1..(IF Len(sorted_contributions) < 2 THEN Len(sorted_contributions) ELSE 2)
           |-> sorted_contributions[i][1]]

\* _get_key_factors
GetKeyFactors(feature_contributions) ==
    LET sorted_contributions == SortedByAbs(feature_contributions)
    IN [i \in 1..(IF Len(sorted_contributions) < 3 THEN Len(sorted_contributions) ELSE 3)
           |-> sorted_contributions[i][1]]

\* The dict calculate_score returns, lines 176-184
ScoreResult(s, probabilities, level, sc, shap_values) ==
    LET feature_contributions == GenerateFeatureContributions(s.feature_names, shap_values)
    IN [score |-> sc,
        confidence |-> CalculateConfidence(probabilities),
        risk_level |-> GetRiskLevelName(level),
        feature_contributions |-> feature_contributions,
        explanation |-> GenerateExplanation(feature_contributions, level),
        key_factors |-> GetKeyFactors(feature_contributions),
        model_version |-> s.model_version]


\* ----------------------------------------------------------------- state
VARIABLES
    modelFile,      \* settings.MODEL_PATH:  [st, run, feature_names]
    shapFile,       \* settings.SHAP_MODEL_PATH: [st, run]
    nextRun,        \* id the next _train_model run gets
    mongoUp,        \* mongodb_sync_client is not None
    creditScores,   \* rows of table credit_scores, in insertion order
    perfRecords,    \* rows of table model_performance (their model_version)
    pc,             \* position of each request
    svc,            \* the CreditScoringService object of each request
    phase,          \* "ctor": inside __init__; "retrain": the task's own _train_model
    inTry,          \* _train_model was called from the else branch inside _load_model's try
    sawNoModel,     \* _load_model found no model file
    trainedRun,     \* last run this request trained itself (0: none)
    row,            \* <<>> or <<what calculate_score read from PostgreSQL>>
    news,           \* <<>> or <<what the news query gave>>
    weights,        \* per article: recency_weight, source_weight, weight
    features,       \* the feature list of calculate_score
    probs,          \* risk_probabilities
    risk_level,     \* model.predict(...)[0]
    score,          \* _calculate_numeric_score(...)
    result,         \* <<>> or <<the dict calculate_score returned>>
    err,            \* the exception that ended the calculate request ("none": none)
    predicted,      \* what the fitted scaler and forest gave so far: features -> probabilities
    explained,      \* what the fitted explainer gave so far: features -> shap values
    calls,          \* the calculate_score calls that returned, in order
    companies,      \* table companies: the tickers stored, in insertion order
    cpc,            \* position of each create_company request
    cticker,        \* the ticker each create_company request asks for
    cstatus,        \* the status each create_company request was answered with (0: none yet)
    http,           \* <<>> or <<the last exchange of an ingestion or model endpoint>>
    tasks,          \* the background tasks scheduled, in order
    tasksRun,       \* how many of them have run
    newsStore,      \* collection news_data: the documents inserted, in order
    lastFetch,      \* <<>> or <<all_news and unique_news of the last fetch_news_data>>
    batch           \* <<>> or <<the batch_ingest_data call: tickers, i, results, returned>>

scoring == <<modelFile, shapFile, nextRun, mongoUp, creditScores, perfRecords,
             pc, svc, phase, inTry, sawNoModel, trainedRun,
             row, news, weights, features, probs, risk_level, score, result, err,
             predicted, explained, calls>>
creating == <<cpc, cticker, cstatus>>
ingesting == <<tasks, tasksRun, newsStore, lastFetch, batch>>
platform == <<companies, creating, http, ingesting>>

vars == <<scoring, platform>>

files == <<modelFile, shapFile>>
tables == <<creditScores, perfRecords>>
ctorLocals == <<phase, inTry, sawNoModel, trainedRun>>
calcLocals == <<row, news, weights, features, probs, risk_level, score, result, err>>
memo == <<predicted, explained, calls>>

\* ------------------------------------------------------------ the files
AbsentFile == [st |-> "absent", run |-> 0, feature_names |-> <<>>]
UnreadableFile == [st |-> "unreadable", run |-> 0, feature_names |-> <<>>]
ModelFileOf(s) == [st |-> "ok", run |-> s.model, feature_names |-> s.feature_names]
ShapFileOf(s) == [st |-> "ok", run |-> s.explainer, feature_names |-> <<>>]

\* CreditScoringService.__init__ before _load_model
NewService == [model |-> 0, scaler |-> 0, explainer |-> 0,
               feature_names |-> <<>>, model_version |-> MODEL_VERSION]

\* _train_model: every field is set by the same run
TrainedService(s, r) == [s EXCEPT !.model = r, !.scaler = r, !.explainer = r,
                                  !.feature_names = FEATURE_NAMES]

\* pickle.load(model file): model, scaler and feature_names of one dict
LoadedModel(s, f) == [s EXCEPT !.model = f.run, !.scaler = f.run,
                              !.feature_names = f.feature_names]

\* pickle.load(shap file)
LoadedExplainer(s, f) == [s EXCEPT !.explainer = f.run]

Workers == {"w1", "w2"}

\* The tables and the collection as the scoring requests find them: one
\* company, nothing ingested, no request in flight.
InitPlatform ==
    /\ companies = <<"AAPL">>
    /\ cpc = [w \in Workers |-> "idle"]
    /\ cticker = [w \in Workers |-> ""]
    /\ cstatus = [w \in Workers |-> 0]
    /\ http = <<>>
    /\ tasks = <<>>
    /\ tasksRun = 0
    /\ newsStore = <<>>
    /\ lastFetch = <<>>
    /\ batch = <<>>

InitScoring ==
    /\ modelFile \in {AbsentFile, UnreadableFile,
                      [st |-> "ok", run |-> 1, feature_names |-> FEATURE_NAMES]}
    /\ shapFile \in {AbsentFile, UnreadableFile,
                     [st |-> "ok", run |-> 1, feature_names |-> <<>>]}
    /\ nextRun = 2
    /\ mongoUp \in BOOLEAN
    /\ creditScores = <<>>
    /\ perfRecords = <<>>
    /\ pc = [p \in Procs |-> "idle"]
    /\ svc = [p \in Procs |-> NewService]
    /\ phase = [p \in Procs |-> "ctor"]
    /\ inTry = [p \in Procs |-> FALSE]
    /\ sawNoModel = [p \in Procs |-> FALSE]
    /\ trainedRun = [p \in Procs |-> 0]
    /\ row = <<>>
    /\ news = <<>>
    /\ weights = <<>>
    /\ features = <<>>
    /\ probs = <<>>
    /\ risk_level = 0
    /\ score = 0
    /\ result = <<>>
    /\ err = "none"
    /\ predicted = <<>>
    /\ explained = <<>>
    /\ calls = <<>>

Init == InitScoring /\ InitPlatform

\* ------------------------------------------------- requests start and end
\* POST /credit-scores/calculate/{ticker}: the company exists, the endpoint
\* constructs a CreditScoringService.
StartCalc ==
    /\ pc["calc"] = "idle"
    /\ Len(creditScores) < MaxScores
    /\ pc' = [pc EXCEPT !["calc"] = "load_model"]
    /\ svc' = [svc EXCEPT !["calc"] = NewService]
    /\ phase' = [phase EXCEPT !["calc"] = "ctor"]
    /\ inTry' = [inTry EXCEPT !["calc"] = FALSE]
    /\ sawNoModel' = [sawNoModel EXCEPT !["calc"] = FALSE]
    /\ trainedRun' = [trainedRun EXCEPT !["calc"] = 0]
    /\ UNCHANGED <<files, nextRun, mongoUp, memo, platform, tables, calcLocals>>

\* retrain_model_task, run by the background tasks of POST /ml-models/retrain
StartRetrain ==
    /\ pc["retrain"] = "idle"
    /\ nextRun <= MaxRuns
    /\ pc' = [pc EXCEPT !["retrain"] = "load_model"]
    /\ svc' = [svc EXCEPT !["retrain"] = NewService]
    /\ phase' = [phase EXCEPT !["retrain"] = "ctor"]
    /\ inTry' = [inTry EXCEPT !["retrain"] = FALSE]
    /\ sawNoModel' = [sawNoModel EXCEPT !["retrain"] = FALSE]
    /\ trainedRun' = [trainedRun EXCEPT !["retrain"] = 0]
    /\ UNCHANGED <<files, nextRun, mongoUp, memo, platform, tables, calcLocals>>

\* Where a request goes once its CreditScoringService() is constructed:
\* calculate_score for the endpoint, the task's own _train_model for the task.
AfterCtor(p) == IF p = "calc" THEN "features" ELSE "train"

\* Where _save_model returns to: the constructor's caller, or the retrain task.
AfterSave(p) == IF phase[p] = "ctor" THEN AfterCtor(p) ELSE "perf"

PhaseAfterCtor(p, next) == IF p = "retrain" /\ next = "train" THEN "retrain" ELSE phase[p]

\* ---------------------------------------------------------- _load_model
\* Mutant: no model file, and _load_model goes on without training.
LoadModelTargetSkip(f) == "load_shap"

\* What _load_model does on the model file: absent -> train (inside the try),
\* unreadable -> the except branch trains, readable -> fields from the file.
LoadModelTarget(f) ==
    CASE f.st = "absent" -> "train"
      [] f.st = "unreadable" -> "train"
      [] OTHER -> "load_shap"

LoadModel(p) ==
    /\ pc[p] = "load_model"
    /\ pc' = [pc EXCEPT ![p] = LoadModelTarget(modelFile)]
    /\ svc' = [svc EXCEPT ![p] = IF modelFile.st = "ok"
                                  THEN LoadedModel(svc[p], modelFile) ELSE svc[p]]
    /\ inTry' = [inTry EXCEPT ![p] = (modelFile.st = "absent")]
    /\ sawNoModel' = [sawNoModel EXCEPT ![p] = (modelFile.st = "absent")]
    /\ UNCHANGED <<files, nextRun, mongoUp, memo, platform, tables, phase, trainedRun, calcLocals>>

\* The explainer file: absent -> the explainer stays None, unreadable -> the
\* except branch trains, readable -> the pickled explainer.
LoadShap(p) ==
    /\ pc[p] = "load_shap"
    /\ LET next == IF shapFile.st = "unreadable" THEN "train" ELSE AfterCtor(p)
       IN /\ pc' = [pc EXCEPT ![p] = next]
          /\ phase' = [phase EXCEPT ![p] =
                          IF shapFile.st = "unreadable" THEN phase[p]
                          ELSE PhaseAfterCtor(p, next)]
    /\ svc' = [svc EXCEPT ![p] = IF shapFile.st = "ok"
                                  THEN LoadedExplainer(svc[p], shapFile) ELSE svc[p]]
    /\ UNCHANGED <<files, nextRun, mongoUp, memo, platform, tables, inTry, sawNoModel, trainedRun,
                   calcLocals>>

\* ---------------------------------------------------------- _train_model
TrainOk(p) ==
    /\ pc[p] = "train"
    /\ nextRun <= MaxRuns
    /\ svc' = [svc EXCEPT ![p] = TrainedService(svc[p], nextRun)]
    /\ trainedRun' = [trainedRun EXCEPT ![p] = nextRun]
    /\ nextRun' = nextRun + 1
    /\ pc' = [pc EXCEPT ![p] = "save_model"]
    /\ inTry' = [inTry EXCEPT ![p] = FALSE]
    /\ UNCHANGED <<files, mongoUp, memo, platform, tables, phase, sawNoModel, calcLocals>>

\* _train_model raises. Raised from the else branch of _load_model it is caught
\* by _load_model's except, which trains once more; raised from that except the
\* constructor raises; raised in the retrain task the task's except prints it.
TrainRaises(p) ==
    /\ pc[p] = "train"
    /\ IF inTry[p]
       THEN /\ inTry' = [inTry EXCEPT ![p] = FALSE]
            /\ UNCHANGED <<pc, err>>
       ELSE /\ pc' = [pc EXCEPT ![p] = IF p = "calc" THEN "failed" ELSE "done"]
            /\ err' = IF p = "calc" THEN "TrainError" ELSE err
            /\ UNCHANGED inTry
    /\ UNCHANGED <<files, nextRun, mongoUp, memo, platform, tables, svc, phase, sawNoModel, trainedRun,
                   row, news, weights, features, probs, risk_level, score, result>>

\* ----------------------------------------------------------- _save_model
\* open(MODEL_PATH, 'wb') truncates the file; pickle.dump then writes it.
SaveModelOpen(p) ==
    /\ pc[p] = "save_model"
    /\ modelFile' = UnreadableFile
    /\ pc' = [pc EXCEPT ![p] = "dump_model"]
    /\ UNCHANGED <<shapFile, nextRun, mongoUp, memo, platform, tables, svc, ctorLocals, calcLocals>>

SaveModelDump(p) ==
    /\ pc[p] = "dump_model"
    /\ modelFile' = ModelFileOf(svc[p])
    /\ pc' = [pc EXCEPT ![p] = "save_shap"]
    /\ UNCHANGED <<shapFile, nextRun, mongoUp, memo, platform, tables, svc, ctorLocals, calcLocals>>

SaveShapOpen(p) ==
    /\ pc[p] = "save_shap"
    /\ shapFile' = UnreadableFile
    /\ pc' = [pc EXCEPT ![p] = "dump_shap"]
    /\ UNCHANGED <<modelFile, nextRun, mongoUp, memo, platform, tables, svc, ctorLocals, calcLocals>>

SaveShapDump(p) ==
    /\ pc[p] = "dump_shap"
    /\ shapFile' = ShapFileOf(svc[p])
    /\ LET next == AfterSave(p)
       IN /\ pc' = [pc EXCEPT ![p] = next]
          /\ phase' = [phase EXCEPT ![p] = PhaseAfterCtor(p, next)]
    /\ UNCHANGED <<modelFile, nextRun, mongoUp, memo, platform, tables, svc, inTry, sawNoModel,
                   trainedRun, calcLocals>>

\* makedirs or an open fails: _save_model logs the error and returns, the
\* remaining writes are skipped.
SaveRaises(p) ==
    /\ pc[p] \in {"save_model", "save_shap"}
    /\ LET next == AfterSave(p)
       IN /\ pc' = [pc EXCEPT ![p] = next]
          /\ phase' = [phase EXCEPT ![p] = PhaseAfterCtor(p, next)]
    /\ UNCHANGED <<files, nextRun, mongoUp, memo, platform, tables, svc, inTry, sawNoModel,
                   trainedRun, calcLocals>>

\* ------------------------------------------------------ retrain_model_task
\* db.add(ModelPerformance(model_version = scoring_service.model_version, ...))
RecordPerformance ==
    /\ pc["retrain"] = "perf"
    /\ perfRecords' = Append(perfRecords, svc["retrain"].model_version)
    /\ pc' = [pc EXCEPT !["retrain"] = "done"]
    /\ UNCHANGED <<files, nextRun, mongoUp, memo, platform, creditScores, svc, ctorLocals, calcLocals>>

\* The response is sent (or the task returns); the request's objects are dropped.
Finish(p) ==
    /\ pc[p] \in {"done", "failed"}
    /\ pc' = [pc EXCEPT ![p] = "idle"]
    /\ svc' = [svc EXCEPT ![p] = NewService]
    /\ phase' = [phase EXCEPT ![p] = "ctor"]
    /\ inTry' = [inTry EXCEPT ![p] = FALSE]
    /\ sawNoModel' = [sawNoModel EXCEPT ![p] = FALSE]
    /\ trainedRun' = [trainedRun EXCEPT ![p] = 0]
    /\ IF p = "calc"
       THEN /\ row' = <<>>
            /\ news' = <<>>
            /\ weights' = <<>>
            /\ features' = <<>>
            /\ probs' = <<>>
            /\ risk_level' = 0
            /\ score' = 0
            /\ result' = <<>>
            /\ err' = "none"
       ELSE UNCHANGED calcLocals
    /\ UNCHANGED <<files, nextRun, mongoUp, memo, platform, tables>>

\* ------------------------------------------------------------ the inputs
\* Rows of table companies (the four columns calculate_score reads).
CompanyRow(d, c, r, m) ==
    [debt_to_equity |-> d, current_ratio |-> c, roe |-> r, market_cap |-> m]
CompanyRows ==
    { CompanyRow({}, {}, {}, {}),
      CompanyRow({0}, {0}, {0}, {0}),
      CompanyRow({20}, {200}, {25}, {2000000000}),
      CompanyRow({80}, {}, {}, {-5}) }

\* Rows of table financial_data (the four columns calculate_score reads).
FinancialRow(d, c, r, m) ==
    [debt_to_equity_ratio |-> d, current_ratio |-> c, roe |-> r, market_cap |-> m]
FinancialRows ==
    { FinancialRow({}, {}, {}, {}),
      FinancialRow({20}, {200}, {25}, {2000000000}),
      FinancialRow({0}, {120}, {-10}, {0}) }

\* What calculate_score reads from PostgreSQL: the company, and the latest
\* financial_data row of the company if there is one.
DbRows ==
    { [company |-> c, financial_data |-> <<>>] : c \in CompanyRows } \cup
    { [company |-> CompanyRow({80}, {}, {}, {-5}), financial_data |-> <<f>>] :
        f \in FinancialRows }
DbRowsFew ==
    { [company |-> CompanyRow({}, {}, {}, {}), financial_data |-> <<>>] }
DbRowsSome ==
    DbRowsFew \cup
    { [company |-> CompanyRow({20}, {200}, {25}, {2000000000}), financial_data |-> <<>>] }

\* Documents of collection news_data, as the aggregation reads them.
Article(title, source, days_old, sentiment_score) ==
    [title |-> title, source |-> source, days_old |-> days_old,
     sentiment_score |-> sentiment_score]
\* days_old is (utcnow() - published_at).days: 0..7 inside the window, and -1
\* for a published_at later than the clock of the aggregation (the query has a
\* lower bound only).
ArticleA == Article(Str("fed raises rates", 1, 0), {Str("reuters", 1, 0)}, 0, 50)
ArticleB == Article(Str("fed raises rates", 0, 1), {Str("some blog", 0, 0)}, 3, -100)
ArticleC == Article(Str("earnings beat", 1, 0), {Str("cnn", 2, 0)}, 7, 100)
ArticleD == Article(Str("guidance cut", 0, 0), {}, -1, -50)
ArticleE == Article(Str("merger talks", 0, 0), {Str("reuters", 0, 1)}, 2, 100)

\* What the news query gives: it raises, or it returns the articles found.
NewsFound(articles) == [status |-> "ok", articles |-> articles]
NewsRaised == [status |-> "raised", articles |-> <<>>]
\* The query sorts by published_at, latest first.
NewsResults ==
    { NewsRaised, NewsFound(<<>>), NewsFound(<<ArticleA>>),
      NewsFound(<<ArticleA, ArticleB>>), NewsFound(<<ArticleB, ArticleC>>),
      NewsFound(<<ArticleD, ArticleE>>) }
NewsResultsFew == { NewsFound(<<>>) }

\* predict_proba(X_scaled)[0]: three class probabilities, multiples of 1/ProbScale
ProbVectors ==
    { <<a, b, ProbScale - a - b>> : a \in 0..ProbScale, b \in 0..ProbScale } \cap
    [1..3 -> 0..ProbScale]
ProbVectorsFew == { <<ProbScale, 0, 0>> }
ProbVectorsSome == { <<ProbScale, 0, 0>>, <<0, 0, ProbScale>> }

\* The standard-normal draws behind np.random.normal(0, sigma)
ZDraws == {-MaxZ, -1, 0, 1, MaxZ}
ZDrawsFew == {0}
ZDrawsSome == {0, 1}

\* explainer.shap_values(X_scaled)[0]: one contribution per feature
ShapVectors ==
    { <<3, -5, 1, 0, 2>>, <<2, -2, 2, 1, 0>>, <<0, 0, 0, 0, 0>>, <<-1, 4, -4, 4, 0>> }
ShapVectorsFew == { <<3, -5, 1, 0, 2>> }
ShapVectorsSome == { <<3, -5, 1, 0, 2>>, <<2, -2, 2, 1, 0>> }

\* ------------------------------------------------------- calculate_score
\* Mutant: the exception is logged and not raised again.
NextPcSwallow(e, target) == target

\* An exception raised inside calculate_score is logged and raised again: the
\* call goes on only when the stage raised nothing.
NextPc(e, target) == IF e = "none" THEN target ELSE "failed"

\* SentimentAnalysisService(): get_mongodb_sync raises without a connection.
SentimentServiceError(up) == IF up THEN "none" ELSE "MongoUnavailable"

\* Lines 136-153: the features of the row, then the sentiment feature.
Features(Rows, Results) ==
    /\ pc["calc"] = "features"
    /\ \E r \in Rows :
          /\ row' = <<r>>
          /\ LET e == SentimentServiceError(mongoUp)
             IN /\ err' = e
                /\ pc' = [pc EXCEPT !["calc"] = NextPc(e, "predict")]
                /\ IF e = "none"
                   THEN \E n \in Results :
                           /\ news' = <<n>>
                           /\ weights' = ArticleWeights(n.articles, SentimentDays)
                           /\ features' = Append(ExtractFeatures(r), GetCompanySentiment(n))
                   ELSE /\ news' = <<>>
                        /\ weights' = <<>>
                        /\ features' = ExtractFeatures(r)
    /\ UNCHANGED <<files, nextRun, mongoUp, memo, platform, tables, svc, ctorLocals,
                   probs, risk_level, score, result>>

\* Mutant: the fitted model answers afresh on every call.
FittedOutcomesFresh(known, x, fresh) == fresh

\* _train_model seeds its data and its forest (np.random.seed(42),
\* random_state = 42) and transform, predict_proba, predict and shap_values
\* draw nothing: every artifact is one and the same function of the features.
\* known is what that function gave so far; on a new x it is any of fresh.
FittedOutcomes(known, x, fresh) ==
    IF x \in DOMAIN known THEN {known[x]} ELSE fresh

\* known, with the value the function gave on x
Learned(known, x, v) ==
    [y \in DOMAIN known \cup {x} |-> IF y = x THEN v ELSE known[y]]

\* Mutant: the scaler is fit again on the request's vector (fit_transform).
ScalerFitTransform(s, X) == [s EXCEPT !.scaler = -1]

\* self.scaler.transform(X): the service after the call; transform reads the
\* fitted mean and scale and assigns nothing.
ScalerTransform(s, X) == s

\* Lines 155-164: scaler.transform, predict_proba, predict, the numeric score.
\* The scaler or the model may raise.
PredictOutcomes(PV) ==
    { [err |-> "PredictError", probabilities |-> <<>>] } \cup
    { [err |-> "none", probabilities |-> pv] : pv \in PV }

PredictStage(PV, Z) ==
    /\ pc["calc"] = "predict"
    /\ \E o \in PredictOutcomes(FittedOutcomes(predicted, features, PV)), z \in Z :
          /\ err' = o.err
          /\ pc' = [pc EXCEPT !["calc"] = NextPc(o.err, "explain")]
          /\ IF o.err = "none"
             THEN /\ probs' = o.probabilities
                  /\ risk_level' = Predict(o.probabilities)
                  /\ score' = CalculateNumericScore(o.probabilities,
                                                    Predict(o.probabilities), z)
                  /\ predicted' = Learned(predicted, features, o.probabilities)
             ELSE UNCHANGED <<probs, risk_level, score, predicted>>
    /\ svc' = [svc EXCEPT !["calc"] = ScalerTransform(svc["calc"], features)]
    /\ UNCHANGED <<files, nextRun, mongoUp, explained, calls, platform, tables, ctorLocals,
                   row, news, weights, features, result>>

\* self.explainer.shap_values(X_scaled): an AttributeError when the explainer
\* is None, else the explainer raises or gives the contributions.
ExplainOutcomes(s, SV) ==
    IF s.explainer = 0
    THEN { [err |-> "AttributeError", shap_values |-> <<>>] }
    ELSE { [err |-> "ShapError", shap_values |-> <<>>] } \cup
         { [err |-> "none", shap_values |-> sv] : sv \in SV }

\* Mutant: when the attribution raised, the score is returned without it.
CalcReturnPartial(s, probabilities, level, sc, o) ==
    IF o.err = "none"
    THEN << ScoreResult(s, probabilities, level, sc, o.shap_values) >>
    ELSE << [score |-> sc,
             confidence |-> CalculateConfidence(probabilities),
             risk_level |-> GetRiskLevelName(level),
             feature_contributions |-> <<>>,
             explanation |-> [profile |-> "", factor |-> ""],
             key_factors |-> <<>>,
             model_version |-> s.model_version] >>

\* Lines 166-188: what calculate_score hands back: nothing when a stage raised.
CalcReturn(s, probabilities, level, sc, o) ==
    IF o.err = "none"
    THEN << ScoreResult(s, probabilities, level, sc, o.shap_values) >>
    ELSE <<>>

\* One returned call: what it was given, the artifact it used, what it returned.
CallRecord(s, x, r) ==
    [features |-> x, model |-> s.model, model_version |-> r.model_version,
     score |-> r.score, risk_level |-> r.risk_level,
     feature_contributions |-> r.feature_contributions, key_factors |-> r.key_factors]

ExplainStage(SV) ==
    /\ pc["calc"] = "explain"
    /\ \E o \in ExplainOutcomes(svc["calc"], FittedOutcomes(explained, features, SV)) :
          /\ err' = o.err
          /\ result' = CalcReturn(svc["calc"], probs, risk_level, score, o)
          /\ pc' = [pc EXCEPT !["calc"] = IF result' = <<>> THEN "failed" ELSE "store"]
          /\ IF result' = <<>>
             THEN UNCHANGED <<explained, calls>>
             ELSE /\ explained' = Learned(explained, features, o.shap_values)
                  /\ calls' = Append(calls, CallRecord(svc["calc"], features, result'[1]))
    /\ UNCHANGED <<files, nextRun, mongoUp, predicted, platform, tables, svc, ctorLocals,
                   row, news, weights, features, probs, risk_level, score>>

\* calculate_credit_score, lines 116-131: the CreditScore row of the result
CreditScoreRow(r) ==
    [score |-> r.score, score_type |-> "issuer", confidence |-> r.confidence,
     risk_level |-> r.risk_level, feature_contributions |-> r.feature_contributions,
     explanation |-> r.explanation, key_factors |-> r.key_factors,
     model_version |-> r.model_version]

Store ==
    /\ pc["calc"] = "store"
    /\ creditScores' = Append(creditScores, CreditScoreRow(result[1]))
    /\ pc' = [pc EXCEPT !["calc"] = "done"]
    /\ UNCHANGED <<files, nextRun, mongoUp, memo, platform, perfRecords, svc, ctorLocals, calcLocals>>

\* ---------------------------------------------------- the specifications
Ctor(p) ==
    \/ LoadModel(p)
    \/ LoadShap(p)
    \/ TrainOk(p)
    \/ TrainRaises(p)
    \/ SaveModelOpen(p)
    \/ SaveModelDump(p)
    \/ SaveShapOpen(p)
    \/ SaveShapDump(p)
    \/ SaveRaises(p)

\* One calculate request, from the endpoint's start to its response, on every
\* input of the model and on every state the two files can be found in.
Next ==
    \/ StartCalc
    \/ Ctor("calc")
    \/ Features(DbRows, NewsResults)
    \/ PredictStage(ProbVectors, ZDraws)
    \/ ExplainStage(ShapVectors)
    \/ Store

Spec == Init /\ [][Next]_vars

\* Calculate requests and retrain tasks, one of each at a time and one after
\* the other, on few inputs.
NextConc ==
    \/ StartCalc
    \/ StartRetrain
    \/ \E p \in Procs : Ctor(p)
    \/ Features(DbRowsFew, NewsResultsFew)
    \/ PredictStage(ProbVectorsFew, ZDrawsFew)
    \/ ExplainStage(ShapVectorsFew)
    \/ Store
    \/ RecordPerformance
    \/ \E p \in Procs : Finish(p)

\* The artifact on disk is whole: both files absent, or both saved by run 1.
InitConc ==
    /\ Init
    /\ modelFile.st = shapFile.st
    /\ modelFile.st # "unreadable"

SpecConc == InitConc /\ [][NextConc]_vars

\* Calculate requests one after the other, on some inputs: a later request
\* meets the features of an earlier one, or others.
NextRepeat ==
    \/ StartCalc
    \/ Ctor("calc")
    \/ Features(DbRowsSome, NewsResultsFew)
    \/ PredictStage(ProbVectorsSome, ZDrawsSome)
    \/ ExplainStage(ShapVectorsSome)
    \/ Store
    \/ Finish("calc")

SpecRepeat == InitConc /\ [][NextRepeat]_vars

\* ------------------------------------------------------------ the claims
\* calculate_score returned a dict (the endpoint is about to store it, or has).
Returned == result # <<>>

\* The request is past CreditScoringService() and inside or past calculate_score.
CalcPastCtor == pc["calc"] \in {"features", "predict", "explain", "store", "done"}

\* Lines 136-153 of calculate_score ran in this request.
FeaturesRan == row # <<>>

FeatureNameSet == { FEATURE_NAMES[i] : i \in 1..Len(FEATURE_NAMES) }

\* A result with every field: one attribution per feature, key factors, and an
\* explanation naming a feature.
Complete(r) ==
    /\ Len(r.feature_contributions) = Len(FEATURE_NAMES)
    /\ \A i \in 1..Len(FEATURE_NAMES) : r.feature_contributions[i][1] = FEATURE_NAMES[i]
    /\ r.key_factors # <<>>
    /\ \A i \in 1..Len(r.key_factors) : r.key_factors[i] \in FeatureNameSet
    /\ r.explanation.factor \in FeatureNameSet
    /\ r.risk_level \in {"low", "medium", "high"}

TierNames == <<"low", "medium", "high">>

\* C1 (as claimed): every result returned by calculate_score has
\* 0 <= score <= 100, whatever the tier and the perturbation drawn.
C1_ScoreInRange ==
    Returned => (0 <= result[1].score /\ result[1].score <= 100)

\* C2: the risk_level of a returned result is the name (0 low, 1 medium,
\* 2 high) of an index at which the probability vector of the same call is
\* largest, and it is one of low, medium, high.
C2_TierIsArgMax ==
    Returned =>
        /\ Len(probs) = Len(TierNames)
        /\ \E i \in 1..Len(probs) :
              /\ result[1].risk_level = TierNames[i]
              /\ \A j \in 1..Len(probs) : probs[j] <= probs[i]
        /\ result[1].risk_level \in {"low", "medium", "high"}

\* C2 witness: a result of tier high whose third probability is the largest.
C2_Witness ==
    /\ Returned
    /\ result[1].risk_level = "high"
    /\ probs[3] > probs[1] /\ probs[3] > probs[2]

\* C3: the confidence of a returned result is the largest entry of the
\* probability vector used for it, and lies in [0, 1].
C3_ConfidenceIsMax ==
    Returned =>
        /\ \A i \in 1..Len(probs) : probs[i] <= result[1].confidence
        /\ \E i \in 1..Len(probs) : probs[i] = result[1].confidence
        /\ 0 <= result[1].confidence /\ result[1].confidence <= ProbScale

\* C3 witness: a result whose largest probability is not the first entry.
C3_Witness ==
    /\ Returned
    /\ probs[2] > probs[1] /\ probs[2] > probs[3]
    /\ result[1].confidence = probs[2]

\* C4 (as claimed): the score stays in the band of its tier: low [80, 90],
\* medium [50, 70], high [20, 40].
C4_ScoreInBand ==
    Returned =>
        /\ result[1].risk_level = "low" => (80 <= result[1].score /\ result[1].score <= 90)
        /\ result[1].risk_level = "medium" => (50 <= result[1].score /\ result[1].score <= 70)
        /\ result[1].risk_level = "high" => (20 <= result[1].score /\ result[1].score <= 40)

C6_NoScoreWithoutExplanation ==
    /\ err \in {"AttributeError", "ShapError"} => (~Returned /\ pc["calc"] = "failed")
    /\ Returned => (svc["calc"].explainer # 0 /\ Complete(result[1]))

\* C6 witness: the prediction succeeded, the explainer is None, the call failed.
C6_Witness ==
    /\ pc["calc"] = "failed"
    /\ err = "AttributeError"
    /\ svc["calc"].explainer = 0
    /\ probs # <<>>

\* C7: the pipeline is all or nothing: a stage that raised ends the call with
\* no result; a result is complete; and a credit_scores row is added only for
\* a complete result of a call that raised nothing.
C7_AllOrNothing ==
    /\ [](/\ err # "none" => (pc["calc"] = "failed" /\ ~Returned)
          /\ Returned => Complete(result[1])
          /\ \A i \in 1..Len(creditScores) :
                Len(creditScores[i].feature_contributions) = Len(FEATURE_NAMES))
    /\ [][creditScores' # creditScores =>
            /\ Returned /\ err = "none" /\ Complete(result[1])
            /\ creditScores' = Append(creditScores, CreditScoreRow(result[1]))]_vars

\* C7 witness: the prediction stage raised and the table has no row.
C7_Witness ==
    /\ pc["calc"] = "failed"
    /\ err = "PredictError"
    /\ creditScores = <<>>

\* C8 (as claimed): with the news store unavailable (no MongoDB connection, or
\* the query raised) the sentiment feature is 0.0 and the call goes on.
C8_NewsStoreDownIsNeutral ==
    (FeaturesRan /\ (~mongoUp \/ news = <<NewsRaised>>)) =>
        /\ err # "MongoUnavailable"
        /\ Len(features) = Len(FEATURE_NAMES)
        /\ features[Len(FEATURE_NAMES)] = Zero

\* No financial_data row, and the news query found no article.
NoSnapshotNoNews ==
    /\ FeaturesRan
    /\ row[1].financial_data = <<>>
    /\ news = <<NewsFound(<<>>)>>

FromColumn(x, d, f) ==
    /\ x \subseteq {0} => f = d
    /\ \A v \in x : v # 0 => f = v

C10_NoHalfUpdatedModel ==
    CalcPastCtor =>
        /\ svc["calc"].scaler = svc["calc"].model
        /\ svc["calc"].feature_names = FEATURE_NAMES
        /\ svc["calc"].explainer \in {0, svc["calc"].model}

\* ------------------------------------------------------- claims C11 - C20
\* get_company_sentiment was called and returned (its value is features[5]).
SentimentReturned == FeaturesRan /\ news # <<>>

\* The query gave at least one article.
ArticlesFound == SentimentReturned /\ news[1].status = "ok" /\ news[1].articles # <<>>

RECURSIVE SumSeq(_)
SumSeq(q) == IF q = <<>> THEN 0 ELSE q[1] + SumSeq(Tail(q))

Min(a, b) == IF a <= b THEN a ELSE b

\* C11: two calculate_score calls that returned, on the same feature vector
\* (the same standardized vector: the fitted scaler is one function) and with
\* the same model version, returned the same risk_level, the same
\* feature_contributions and the same key_factors.
C11_SameInputSameAnswer ==
    \A i, j \in 1..Len(calls) :
        (/\ calls[i].features = calls[j].features
         /\ calls[i].model_version = calls[j].model_version) =>
            /\ calls[i].risk_level = calls[j].risk_level
            /\ calls[i].feature_contributions = calls[j].feature_contributions
            /\ calls[i].key_factors = calls[j].key_factors

\* C11 witness: two calls on the same features whose scores differ (the score
\* is perturbed at random) and whose tier and key factors agree.
C11_Witness ==
    /\ Len(calls) >= 2
    /\ calls[1].features = calls[2].features
    /\ calls[1].model_version = calls[2].model_version
    /\ calls[1].score # calls[2].score
    /\ calls[1].risk_level = calls[2].risk_level
    /\ calls[1].key_factors = calls[2].key_factors

\* C12 (as claimed): the aggregate is computed on the articles deduplicated by
\* normalized title (lower-cased, stripped), the first of each title only.
C12_DedupByTitle ==
    SentimentReturned =>
        features[Len(FEATURE_NAMES)] =
            WeightedSentiment(DeduplicateNews(news[1].articles, {}), SentimentDays)

\* C13: when the query finds no article, get_company_sentiment returns exactly
\* 0.0 with no article weighted, and the call goes on to the prediction.
C13_NoArticleIsZero ==
    (FeaturesRan /\ news = <<NewsFound(<<>>)>>) =>
        /\ weights = <<>>
        /\ Len(features) = Len(FEATURE_NAMES)
        /\ features[Len(FEATURE_NAMES)] = Zero
        /\ err \in {"none", "PredictError", "AttributeError", "ShapError"}
        /\ pc["calc"] # "features"

\* C13 witness: no article, sentiment 0.0, the call is at the prediction.
C13_Witness ==
    /\ news = <<NewsFound(<<>>)>>
    /\ features # <<>>
    /\ features[Len(features)] = Zero
    /\ pc["calc"] = "predict"

\* C14: key_factors has exactly min(3, number of features) entries, each a
\* feature name of the model, no name twice.
C14_KeyFactorCount ==
    Returned =>
        LET kf == result[1].key_factors
            names == svc["calc"].feature_names
        IN /\ Len(kf) = Min(3, Len(names))
           /\ \A i \in 1..Len(kf) : \E n \in 1..Len(names) : kf[i] = names[n]
           /\ \A i, j \in 1..Len(kf) : i # j => kf[i] # kf[j]

\* C14 witness: every contribution is 0 and three names are returned.
C14_Witness ==
    /\ Returned
    /\ \A i \in 1..Len(result[1].feature_contributions) :
          result[1].feature_contributions[i][2] = 0
    /\ Len(result[1].key_factors) = 3

\* The place of a feature in the contributions (declaration order) and the
\* size of its contribution.
Place(r, name) ==
    CHOOSE i \in 1..Len(r.feature_contributions) : r.feature_contributions[i][1] = name
Size(r, name) == Abs(r.feature_contributions[Place(r, name)][2])

\* C15: key_factors is in descending order of absolute contribution, features
\* of equal absolute contribution in declaration order; no feature left out
\* has a larger absolute contribution than one included.
C15_KeyFactorOrder ==
    Returned =>
        LET r == result[1]
            kf == r.key_factors
            included == { kf[i] : i \in 1..Len(kf) }
        IN /\ \A i, j \in 1..Len(kf) : i < j =>
                 \/ Size(r, kf[i]) > Size(r, kf[j])
                 \/ /\ Size(r, kf[i]) = Size(r, kf[j])
                    /\ Place(r, kf[i]) < Place(r, kf[j])
           /\ \A n \in FeatureNameSet \ included : \A m \in included :
                 Size(r, n) <= Size(r, m)

\* C15 witness: contributions -1, 4, -4, 4, 0: the three of size 4 are the key
\* factors, in declaration order.
C15_Witness ==
    /\ Returned
    /\ [i \in 1..Len(result[1].feature_contributions) |->
           result[1].feature_contributions[i][2]] = <<-1, 4, -4, 4, 0>>
    /\ result[1].key_factors = <<"current_ratio", "roe", "log_market_cap">>

\* The retrain task's _train_model returned and both files hold its artifact.
Retrained ==
    /\ pc["retrain"] = "perf"
    /\ modelFile = ModelFileOf(svc["retrain"])
    /\ shapFile = ShapFileOf(svc["retrain"])
    /\ svc["retrain"].model = trainedRun["retrain"]

\* C16 (as claimed): the model_version a retrain reports for the artifact it
\* trained differs from the model_version of every result made with another
\* artifact.
C16_NewArtifactNewVersion ==
    Retrained =>
        \A i \in 1..Len(calls) :
            calls[i].model # trainedRun["retrain"] =>
                calls[i].model_version # svc["retrain"].model_version

\* C17: for a non-empty set of articles with sentiment in [-1, 1] the value
\* returned is sum(weight * sentiment) / sum(weight), weight = recency weight
\* times source weight, and lies in [-1, 1].
C17_WeightedMean ==
    ArticlesFound =>
        LET a == news[1].articles
            f == features[Len(FEATURE_NAMES)]
            w == [i \in 1..Len(a) |-> weights[i].recency_weight * weights[i].source_weight]
            W == SumSeq(w)
            S == SumSeq([i \in 1..Len(a) |-> w[i] * a[i].sentiment_score])
        IN /\ Len(weights) = Len(a)
           /\ \A i \in 1..Len(a) : weights[i].weight = w[i]
           /\ W > 0
           /\ f.den > 0
           /\ f.num * W = f.den * S
           /\ -100 * f.den <= f.num /\ f.num <= 100 * f.den

\* C17 witness: a fresh Reuters article of sentiment 0.5 and a three days old
\* blog article of sentiment -1: (0.5 * 1 - 1 * 0.2857) / 1.2857 = 1/6.
C17_Witness ==
    /\ news = <<NewsFound(<<ArticleA, ArticleB>>)>>
    /\ features # <<>>
    /\ features[Len(features)] = [num |-> 50, den |-> 3]

\* C18 (as claimed): each article's recency weight is
\* max(0.1, 1 - daysOld/windowDays), never below 0.1 and never above 1.
C18_RecencyWeightInRange ==
    ArticlesFound =>
        \A i \in 1..Len(weights) :
            /\ weights[i].recency_weight =
                  Max(SentimentDays, 10 * SentimentDays - 10 * news[1].articles[i].days_old)
            /\ weights[i].recency_weight >= SentimentDays
            /\ weights[i].recency_weight <= 10 * SentimentDays

\* Two source names are equal up to letter case.
SameName(a, b) == a.text = b.text /\ a.pad = b.pad

\* C19: the source weight is 1.0 exactly when the source equals a name of the
\* high list up to letter case, 0.7 exactly when it equals a name of the medium
\* list, 0.5 otherwise (a missing source included), whatever the letter case.
C19_SourceCredibility ==
    ArticlesFound =>
        \A i \in 1..Len(weights) :
            LET src == ArticleSource(news[1].articles[i])
                sw == weights[i].source_weight
                high == \E n \in high_credibility : SameName(src, n)
                medium == \E n \in medium_credibility : SameName(src, n)
            IN /\ sw = 10 <=> high
               /\ sw = 7 <=> medium
               /\ sw = 5 <=> (~high /\ ~medium)
               /\ news[1].articles[i].source = {} => sw = 5
               /\ \A c \in 0..2 : GetSourceCredibility([src EXCEPT !.caps = c]) = sw

\* C19 witness: "Reuters" weighs 1.0, a blog 0.5.
C19_Witness ==
    /\ news = <<NewsFound(<<ArticleA, ArticleB>>)>>
    /\ Len(weights) = 2
    /\ weights[1].source_weight = 10
    /\ weights[2].source_weight = 5

\* The column a feature is read from: of the snapshot when there is one, else
\* of the company.
ColumnOf(r, name) ==
    IF r.financial_data = <<>>
    THEN CASE name = "debt_to_equity" -> r.company.debt_to_equity
           [] name = "current_ratio" -> r.company.current_ratio
           [] name = "roe" -> r.company.roe
           [] name = "log_market_cap" -> r.company.market_cap
    ELSE CASE name = "debt_to_equity" -> r.financial_data[1].debt_to_equity_ratio
           [] name = "current_ratio" -> r.financial_data[1].current_ratio
           [] name = "roe" -> r.financial_data[1].roe
           [] name = "log_market_cap" -> r.financial_data[1].market_cap

\* The feature vector was built and handed to the scaler.
PassedToScaler == SentimentReturned /\ pc["calc"] # "features"

\* C20: the vector handed to the scaler has the length and the order of the
\* feature names of the model in use: entry i is the value of the feature
\* named feature_names[i], with a trained or a loaded model, from a snapshot
\* or from the company.
C20_VectorMatchesFeatureNames ==
    PassedToScaler =>
        LET names == svc["calc"].feature_names
        IN /\ names = FEATURE_NAMES
           /\ Len(features) = Len(names)
           /\ FromColumn(ColumnOf(row[1], names[1]), DefaultDebtToEquity, features[1])
           /\ FromColumn(ColumnOf(row[1], names[2]), DefaultCurrentRatio, features[2])
           /\ FromColumn(ColumnOf(row[1], names[3]), DefaultRoe, features[3])
           /\ \E m \in {DefaultMarketCap} \cup ColumnOf(row[1], names[4]) :
                 /\ FromColumn(ColumnOf(row[1], names[4]), DefaultMarketCap, m)
                 /\ features[4] = NpLog(m)
           /\ names[5] = "sentiment_score"
           /\ features[5] = GetCompanySentiment(news[1])

\* C20 witness: a model loaded from the files, features of a snapshot whose
\* columns all differ, the vector at the prediction.
C20_Witness ==
    /\ PassedToScaler
    /\ trainedRun["calc"] = 0
    /\ row[1].financial_data = <<FinancialRow({20}, {200}, {25}, {2000000000})>>
    /\ features[2] = 200 /\ features[3] = 25
    /\ probs # <<>>

\* ------------------------------------------------------- companies.py
\* POST /companies/: create_company looks the ticker up, answers 400 when a
\* row has it, and otherwise adds a row and commits.  The lookup and the
\* commit are two statements of the database: requests served by different
\* workers interleave between them.  Column ticker is unique=True.

Tickers == {"AAPL", "MSFT", "TSLA"}

Range(q) == {q[i] : i \in DOMAIN q}

\* a commit with no unique index on ticker
UniqueViolationNever(table, ticker) == FALSE

\* Column(String(20), unique=True): the insert of a ticker a row already has
\* raises IntegrityError
UniqueViolation(table, ticker) == ticker \in Range(table)

CreateCheck(w, ticker) ==
    /\ cpc[w] = "idle"
    /\ cticker' = [cticker EXCEPT ![w] = ticker]
    /\ IF ticker \in Range(companies)
       THEN /\ cstatus' = [cstatus EXCEPT ![w] = 400]
            /\ cpc' = [cpc EXCEPT ![w] = "done"]
       ELSE /\ cstatus' = [cstatus EXCEPT ![w] = 0]
            /\ cpc' = [cpc EXCEPT ![w] = "commit"]
    /\ UNCHANGED <<scoring, companies, http, ingesting>>

\* db.add, db.commit, db.refresh; an IntegrityError is not caught by the
\* handler and main.py's handler for Exception answers 500
CreateCommit(w) ==
    /\ cpc[w] = "commit"
    /\ Len(companies) < MaxCompanies
    /\ IF UniqueViolation(companies, cticker[w])
       THEN /\ cstatus' = [cstatus EXCEPT ![w] = 500]
            /\ UNCHANGED companies
       ELSE /\ cstatus' = [cstatus EXCEPT ![w] = 200]
            /\ companies' = Append(companies, cticker[w])
    /\ cpc' = [cpc EXCEPT ![w] = "done"]
    /\ UNCHANGED <<scoring, cticker, http, ingesting>>

\* the response is sent; the worker takes the next request
CreateDone(w) ==
    /\ cpc[w] = "done"
    /\ cpc' = [cpc EXCEPT ![w] = "idle"]
    /\ cticker' = [cticker EXCEPT ![w] = ""]
    /\ cstatus' = [cstatus EXCEPT ![w] = 0]
    /\ UNCHANGED <<scoring, companies, http, ingesting>>

\* ------------------------------------------- services/data_ingestion.py
NewsItem(title, company_ticker) == [title |-> title, company_ticker |-> company_ticker]

\* what NewsAPI answers for a company: nothing, or two articles
CompanyNews(ticker) ==
    {<<>>,
     <<NewsItem(Str("fed raises rates", 1, 0), ticker),
       NewsItem(Str("earnings beat", 0, 0), ticker)>>}

\* the relevant top headlines: nothing, a headline the company news has in
\* another spelling, or the same headline twice
GeneralNews ==
    {<<>>,
     <<NewsItem(Str("fed raises rates", 0, 1), "MARKET")>>,
     <<NewsItem(Str("rate outlook", 1, 1), "MARKET"),
       NewsItem(Str("rate outlook", 0, 0), "MARKET")>>}

MaxNews == 4

\* the inputs of one ingest_company_data call: whether Yahoo gave data,
\* whether NEWS_API_KEY is set, the two answers of NewsAPI, and how many
\* insert_one calls MongoDB takes before one raises
IngestInputs ==
    [financial_data : BOOLEAN, api_key : BOOLEAN,
     company_news : CompanyNews("T"), general_news : GeneralNews,
     inserts : {0, 1, MaxNews}]

ForTicker(items, ticker) ==
    [i \in DOMAIN items |-> [items[i] EXCEPT !.company_ticker = ticker]]

AllNews(ticker, in) == ForTicker(in.company_news, ticker) \o in.general_news

\* fetch_news_data
FetchNewsData(ticker, in) ==
    IF ~in.api_key THEN <<>> ELSE DeduplicateNews(AllNews(ticker, in), {})

IngestError(ticker, error) ==
    [ticker |-> ticker, status |-> "error", error |-> error, news_data |-> 0]

\* the documents insert_one stored before the call returned
IngestStored(ticker, table, in, mongo) ==
    LET news_data == FetchNewsData(ticker, in)
        n == IF in.inserts < Len(news_data) THEN in.inserts ELSE Len(news_data)
    IN  IF ticker \notin Range(table) \/ in.financial_data \/ ~mongo
        THEN <<>>
        ELSE SubSeq(news_data, 1, n)

\* the dictionary ingest_company_data returns
IngestCompanyData(ticker, table, in, mongo) ==
    LET news_data == FetchNewsData(ticker, in)
    IN  IF ticker \notin Range(table)
        THEN IngestError(ticker, "ValueError: Company not found in database")
        ELSE IF in.financial_data
        THEN IngestError(ticker, "TypeError: 'price' is an invalid keyword argument for FinancialData")
        ELSE IF news_data # <<>> /\ ~mongo
        THEN IngestError(ticker, "MongoDB connection not available")
        ELSE IF in.inserts < Len(news_data)
        THEN IngestError(ticker, "insert_one raised")
        ELSE [ticker |-> ticker, status |-> "success", error |-> "",
              news_data |-> Len(news_data)]

\* all_news and unique_news of the call's fetch_news_data, when it
\* deduplicated
IngestFetched(ticker, table, in) ==
    IF ticker \in Range(table) /\ in.api_key
    THEN <<[all_news |-> AllNews(ticker, in),
            unique_news |-> FetchNewsData(ticker, in)]>>
    ELSE <<>>

\* the effect of one ingest_company_data call on the collection
Ingested(ticker, in) ==
    /\ newsStore' = newsStore \o IngestStored(ticker, companies, in, mongoUp)
    /\ lastFetch' = IF IngestFetched(ticker, companies, in) = <<>>
                    THEN lastFetch
                    ELSE IngestFetched(ticker, companies, in)

\* a loop that gives up at the first ticker that failed
BatchNextIndexAbort(i, n, r) == IF r.status = "error" THEN n + 1 ELSE i + 1

\* for ticker in tickers: the loop goes on whatever the result
BatchNextIndex(i, n, r) == i + 1

BatchLists ==
    UNION {[1..n -> Tickers] : n \in 0..MaxBatch}

\* the call batch_ingest_data(tickers, db)
BatchStart(tickers) ==
    /\ batch = <<>>
    /\ batch' = <<[tickers |-> tickers, i |-> 1, results |-> <<>>,
                   returned |-> <<>>]>>
    /\ UNCHANGED <<scoring, companies, creating, http, tasks, tasksRun,
                   newsStore, lastFetch>>

\* one turn of the loop: ingest_company_data never raises, its dictionary
\* is appended
BatchStep ==
    /\ batch # <<>>
    /\ batch[1].returned = <<>>
    /\ batch[1].i <= Len(batch[1].tickers)
    /\ \E in \in IngestInputs :
         LET b == batch[1]
             ticker == b.tickers[b.i]
             r == IngestCompanyData(ticker, companies, in, mongoUp)
         IN  /\ Ingested(ticker, in)
             /\ batch' = <<[b EXCEPT !.results = Append(b.results, r),
                                     !.i = BatchNextIndex(b.i, Len(b.tickers), r)]>>
    /\ UNCHANGED <<scoring, companies, creating, http, tasks, tasksRun>>

CountStatus(results, status) ==
    Cardinality({k \in DOMAIN results : results[k].status = status})

BatchReturn ==
    /\ batch # <<>>
    /\ batch[1].returned = <<>>
    /\ batch[1].i > Len(batch[1].tickers)
    /\ LET b == batch[1]
       IN  batch' = <<[b EXCEPT !.returned =
                <<[total_companies |-> Len(b.tickers),
                   successful |-> CountStatus(b.results, "success"),
                   failed |-> CountStatus(b.results, "error"),
                   results |-> b.results]>>]>>
    /\ UNCHANGED <<scoring, companies, creating, http, tasks, tasksRun,
                   newsStore, lastFetch>>

\* ------------------------------- endpoints/data_ingestion.py, ml_models.py
\* The router matches routes in the order they were declared:
\* POST /data/ingest/{ticker} is declared first and also takes the paths
\* /data/ingest/batch and /data/ingest/all, with those words as the ticker.
PathSegments == Tickers \cup {"batch", "all"}

\* the handlers' "except Exception as e: raise HTTPException(500, str(e))"
\* around the whole body: HTTPException is an Exception
Handled(raised) ==
    IF raised = "none"
    THEN [status |-> 200, error |-> "none"]
    ELSE [status |-> 500, error |-> raised]

Exchange(handler, ticker, found, raised, scheduled) ==
    <<[handler |-> handler, ticker |-> ticker, found |-> found,
       status |-> Handled(raised).status, error |-> Handled(raised).error,
       scheduled |-> scheduled]>>

IngestRequest(ticker) ==
    /\ IF ticker \in Range(companies)
       THEN /\ Len(tasks) < MaxTasks
            /\ tasks' = Append(tasks, ticker)
            /\ http' = Exchange("ingest_company_data", ticker, TRUE, "none", TRUE)
       ELSE /\ http' = Exchange("ingest_company_data", ticker, FALSE,
                                "HTTPException(404, Company not found)", FALSE)
            /\ UNCHANGED tasks
    /\ UNCHANGED <<scoring, companies, creating, tasksRun, newsStore,
                   lastFetch, batch>>

StatusRequest(ticker) ==
    /\ http' = IF ticker \notin Range(companies)
               THEN Exchange("get_ingestion_status", ticker, FALSE,
                             "HTTPException(404, Company not found)", FALSE)
               ELSE IF ~mongoUp
               THEN Exchange("get_ingestion_status", ticker, TRUE,
                             "MongoDB connection not available", FALSE)
               ELSE Exchange("get_ingestion_status", ticker, TRUE, "none", FALSE)
    /\ UNCHANGED <<scoring, companies, creating, ingesting>>

\* credit_scores: the company's rows of table credit_scores
EvaluateRequest(ticker, credit_scores) ==
    /\ http' = IF ticker \notin Range(companies)
               THEN Exchange("evaluate_model_on_company", ticker, FALSE,
                             "HTTPException(404, Company not found)", FALSE)
               ELSE IF credit_scores = <<>>
               THEN Exchange("evaluate_model_on_company", ticker, TRUE,
                             "HTTPException(404, No credit scores found for company)", FALSE)
               ELSE Exchange("evaluate_model_on_company", ticker, TRUE, "none", FALSE)
    /\ UNCHANGED <<scoring, companies, creating, ingesting>>

\* ingest_company_data_task: the next scheduled task runs
IngestTask ==
    /\ tasksRun < Len(tasks)
    /\ \E in \in IngestInputs : Ingested(tasks[tasksRun + 1], in)
    /\ tasksRun' = tasksRun + 1
    /\ UNCHANGED <<scoring, companies, creating, http, tasks, batch>>

\* ------------------------------------------ the platform specifications
\* no scoring request runs; the artifacts are absent
ScoringIdle ==
    /\ InitScoring
    /\ modelFile = AbsentFile
    /\ shapFile = AbsentFile

InitCompanies ==
    /\ ScoringIdle
    /\ mongoUp
    /\ companies \in {<<>>, <<"AAPL">>}
    /\ cpc = [w \in Workers |-> "idle"]
    /\ cticker = [w \in Workers |-> ""]
    /\ cstatus = [w \in Workers |-> 0]
    /\ http = <<>>
    /\ tasks = <<>>
    /\ tasksRun = 0
    /\ newsStore = <<>>
    /\ lastFetch = <<>>
    /\ batch = <<>>

NextCompanies ==
    \/ \E w \in Workers, ticker \in Tickers : CreateCheck(w, ticker)
    \/ \E w \in Workers : CreateCommit(w)
    \/ \E w \in Workers : CreateDone(w)

SpecCompanies == InitCompanies /\ [][NextCompanies]_vars

InitIngest ==
    /\ ScoringIdle
    /\ companies \in {<<"AAPL">>, <<"AAPL", "MSFT">>}
    /\ cpc = [w \in Workers |-> "idle"]
    /\ cticker = [w \in Workers |-> ""]
    /\ cstatus = [w \in Workers |-> 0]
    /\ http = <<>>
    /\ tasks = <<>>
    /\ tasksRun = 0
    /\ newsStore = <<>>
    /\ lastFetch = <<>>
    /\ batch = <<>>

NextIngest ==
    \/ \E tickers \in BatchLists : BatchStart(tickers)
    \/ BatchStep
    \/ BatchReturn

SpecIngest == InitIngest /\ [][NextIngest]_vars

EvaluatedScores == {<<>>, <<700>>, <<650, 720>>}

NextEndpoints ==
    \/ \E ticker \in PathSegments : IngestRequest(ticker)
    \/ \E ticker \in Tickers : StatusRequest(ticker)
    \/ \E ticker \in Tickers, credit_scores \in EvaluatedScores :
         EvaluateRequest(ticker, credit_scores)
    \/ IngestTask

SpecEndpoints == InitIngest /\ [][NextEndpoints]_vars

\* ------------------------------------------------------- claims C21 - C30
\* C21 (as claimed): a market capitalisation of zero or less is replaced by
\* the default 1e9 before the logarithm, and log_market_cap is always finite.
C21_LogMarketCapFinite ==
    FeaturesRan =>
        /\ features[4] # NaN
        /\ \A v \in ColumnOf(row[1], "log_market_cap") :
              v <= 0 => features[4] = NpLog(DefaultMarketCap)

\* The word the sentence of a tier uses.
SentenceWord ==
    [t \in {"low", "medium", "high"} |-> IF t = "medium" THEN "moderate" ELSE t]

\* C22: the factor named in the explanation has the largest absolute
\* contribution, is key_factors[0] of the same result, and the sentence is the
\* one of the result's risk_level.
C22_ExplanationNamesTopFactor ==
    Returned =>
        LET r == result[1]
        IN /\ r.explanation.factor = r.key_factors[1]
           /\ \A n \in FeatureNameSet : Size(r, n) <= Size(r, r.explanation.factor)
           /\ r.explanation.profile = SentenceWord[r.risk_level]

\* C22 witness: a medium-risk result whose largest contribution, -5, is that
\* of current_ratio: "moderate", current_ratio.
C22_Witness ==
    /\ Returned
    /\ result[1].risk_level = "medium"
    /\ result[1].feature_contributions[2] = <<"current_ratio", -5>>
    /\ result[1].explanation = [profile |-> "moderate", factor |-> "current_ratio"]

\* C23: feature_contributions has one entry per feature name of the model in
\* use, in their order, and the value under the i-th name is the i-th value
\* the explainer gave for this input.
C23_ContributionsAligned ==
    Returned =>
        LET fc == result[1].feature_contributions
            names == svc["calc"].feature_names
        IN /\ Len(fc) = Len(names)
           /\ features \in DOMAIN explained
           /\ \A i \in 1..Len(names) :
                 /\ fc[i][1] = names[i]
                 /\ fc[i][2] = explained[features][i]

\* C23 witness: the explainer gave 3, -5, 1, 0, 2 and current_ratio holds -5.
C23_Witness ==
    /\ Returned
    /\ features \in DOMAIN explained
    /\ explained[features] = <<3, -5, 1, 0, 2>>
    /\ result[1].feature_contributions[2] = <<"current_ratio", -5>>
    /\ result[1].feature_contributions[5] = <<"sentiment_score", 2>>

\* calculate_score is running (past the constructor, before its return or raise).
InCalculateScore == pc["calc"] \in {"features", "predict", "explain"}

\* C24: a step of calculate_score, ending well or raising, leaves model,
\* scaler, explainer, feature_names and model_version of the service and the
\* two files as they were; the scaler in use is the one of the model's fit.
C24_ArtifactReadOnly ==
    /\ [](CalcPastCtor => svc["calc"].scaler = svc["calc"].model)
    /\ [][InCalculateScore =>
            /\ svc'["calc"] = svc["calc"]
            /\ modelFile' = modelFile
            /\ shapFile' = shapFile]_vars

\* C24 witness: a loaded artifact after a call that returned: the service
\* still holds what the files hold.
C24_Witness ==
    /\ Returned
    /\ trainedRun["calc"] = 0
    /\ modelFile = ModelFileOf(svc["calc"])
    /\ shapFile = ShapFileOf(svc["calc"])
    /\ svc["calc"].scaler = 1

\* C27 (as claimed): once the constructor returned, model, scaler and
\* explainer are set and feature_names is not empty, whatever the two files
\* were.
C27_ConstructedIsUsable ==
    CalcPastCtor =>
        /\ svc["calc"].model # 0
        /\ svc["calc"].scaler # 0
        /\ svc["calc"].explainer # 0
        /\ svc["calc"].feature_names # <<>>

\* The defaults of the four financial features, and a column value as the
\* feature it becomes.
DefaultFeatures ==
    <<DefaultDebtToEquity, DefaultCurrentRatio, DefaultRoe, NpLog(DefaultMarketCap)>>
AsFeature(i, v) == IF i = 4 THEN NpLog(v) ELSE v

\* C29: a column equal to 0 gives the same feature as an absent column, the
\* default (0.5, 1.5, 0.15, log 1e9); every other value is passed through.
C29_ZeroIsAbsent ==
    FeaturesRan =>
        \A i \in 1..4 :
            LET column == ColumnOf(row[1], FEATURE_NAMES[i])
            IN /\ column \in {{}, {0}} => features[i] = DefaultFeatures[i]
               /\ \A v \in column : v # 0 => features[i] = AsFeature(i, v)

\* C29 witness: a snapshot with debt_to_equity_ratio 0 and market_cap 0,
\* current_ratio 1.2 and roe -0.10.
C29_Witness ==
    /\ FeaturesRan
    /\ row[1].financial_data = <<FinancialRow({0}, {120}, {-10}, {0})>>
    /\ features[1] = DefaultDebtToEquity
    /\ features[2] = 120
    /\ features[3] = -10
    /\ features[4] = NpLog(DefaultMarketCap)

\* C25: in batch_ingest_data the failure of one ticker does not abort the
\* others: the results follow the input list entry by entry, in its order,
\* and the returned dictionary has one entry per ticker with
\* successful + failed = total_companies = the length of the input list.
BatchReturned == batch # <<>> /\ batch[1].returned # <<>>

C25_BatchProcessesEveryTicker ==
    /\ batch # <<>> =>
         LET b == batch[1]
         IN  /\ Len(b.results) <= Len(b.tickers)
             /\ \A k \in DOMAIN b.results : b.results[k].ticker = b.tickers[k]
    /\ BatchReturned =>
         LET b == batch[1]
             s == b.returned[1]
         IN  /\ Len(s.results) = Len(b.tickers)
             /\ \A k \in DOMAIN s.results : s.results[k].ticker = b.tickers[k]
             /\ s.successful + s.failed = s.total_companies
             /\ s.total_companies = Len(b.tickers)

\* a batch returned whose first ticker failed and whose second succeeded
C25_Witness ==
    /\ BatchReturned
    /\ Len(batch[1].tickers) >= 2
    /\ batch[1].returned[1].results[1].status = "error"
    /\ batch[1].returned[1].results[2].status = "success"

\* C26: _deduplicate_news returns a subsequence of its input in which no
\* two items share a normalized title, every normalized title of the input
\* is represented by its first occurrence, and deduplicating the output
\* again changes nothing.
TitleKey(item) == Strip(Lower(item.title))

IsSubsequence(u, a) ==
    \E f \in [DOMAIN u -> DOMAIN a] :
        /\ \A k \in DOMAIN u : u[k] = a[f[k]]
        /\ \A k, l \in DOMAIN u : k < l => f[k] < f[l]

FirstOccurrence(a, i) ==
    CHOOSE j \in DOMAIN a :
        /\ TitleKey(a[j]) = TitleKey(a[i])
        /\ \A l \in DOMAIN a : TitleKey(a[l]) = TitleKey(a[i]) => j <= l

C26_DeduplicateNews ==
    lastFetch # <<>> =>
        LET a == lastFetch[1].all_news
            u == lastFetch[1].unique_news
        IN  /\ IsSubsequence(u, a)
            /\ \A k, l \in DOMAIN u : k # l => TitleKey(u[k]) # TitleKey(u[l])
            /\ \A i \in DOMAIN a : \E k \in DOMAIN u : u[k] = a[FirstOccurrence(a, i)]
            /\ DeduplicateNews(u, {}) = u

\* a fetch whose items met a title in another spelling and kept two titles
C26_Witness ==
    /\ lastFetch # <<>>
    /\ Len(lastFetch[1].unique_news) >= 2
    /\ Len(lastFetch[1].unique_news) < Len(lastFetch[1].all_news)
    /\ \E i, j \in DOMAIN lastFetch[1].all_news :
          /\ i # j
          /\ lastFetch[1].all_news[i].title # lastFetch[1].all_news[j].title
          /\ TitleKey(lastFetch[1].all_news[i]) = TitleKey(lastFetch[1].all_news[j])

\* C28: an ingestion or model endpoint that finds no company for the
\* ticker answers 404 'Company not found', schedules no background task,
\* and does not answer 500.
C28_MissingCompanyIs404 ==
    (http # <<>> /\ ~http[1].found) =>
        /\ http[1].status = 404
        /\ ~http[1].scheduled

\* C30: no two stored companies share a ticker, whatever create_company
\* requests ran and however they interleaved; a request whose lookup finds
\* the ticker is answered 400 and leaves the stored companies unchanged.
NoTwoShareTicker ==
    \A i, j \in DOMAIN companies : companies[i] = companies[j] => i = j

====
